---- MODULE Spec2Model ----
(***************************************************************************)
(* A model of the mini React runtime of this repository: the reconciler    *)
(* (core/reconciler.ts), the path assigner (core/elements.ts), the DOM     *)
(* adapter (core/dom.ts), the hook store and hooks (core/hooks.ts), the    *)
(* render pass and its effect flush (core/render.ts), driven by a small    *)
(* application whose root component switches between fixed VNode trees.    *)
(*                                                                         *)
(* JavaScript is single threaded: one action is one synchronous piece of   *)
(* code (a setter call of a handler, one microtask).  Microtasks run in    *)
(* FIFO order, and only when the running synchronous block has ended.      *)
(***************************************************************************)
EXTENDS Integers, Sequences, FiniteSets, TLC

\* ------------------------------------------------------------------ bounds
MaxTicks == 1        \* synchronous blocks (handlers) the environment starts
MaxCalls == 3        \* setter calls inside one synchronous block
MaxCount == 3        \* largest value a counter is driven to
MaxDefer == 1        \* user microtasks queued over a run

\* --------------------------------------------------------------- constants
TEXT_ELEMENT == "TEXT"
Fragment == "FRAGMENT"
NullType == "NULL"

\* The component functions of the application.
ComponentTypes == {"App", "Counter", "Once", "Every", "Item", "ItemTwin"}

\* Function.displayName || Function.name: ItemTwin is another function whose
\* displayName is "Item"
ComponentName(type) == IF type = "ItemTwin" THEN "Item" ELSE type

\* ------------------------------------------------------------------ VNodes
NoKey == <<>>
NoProps == [k \in {} |-> ""]
NullNode == [type |-> NullType]

IsNullNode(node) == node.type = NullType

\* createTextElement
createTextElement(s) ==
    [type |-> TEXT_ELEMENT, key |-> NoKey, props |-> NoProps,
     nodeValue |-> s, children |-> <<>>]

\* createElement: children are already normalized sequences of VNodes
createElement(type, key, props, children) ==
    [type |-> type, key |-> key, props |-> props,
     nodeValue |-> "", children |-> children]

\* ------------------------------------------------------------ path identity
RECURSIVE CountSameType(_, _, _)
CountSameType(siblings, n, nodeType) ==
    IF n = 0 THEN 0
    ELSE CountSameType(siblings, n - 1, nodeType)
         + (IF siblings[n].type = nodeType /\ siblings[n].key = NoKey THEN 1 ELSE 0)

\* createChildPath as it would be had the path of a keyed child held its index
createChildPath_indexed(parentPath, key, index, nodeType, siblings) ==
    IF key # NoKey
    THEN parentPath \o ".k" \o key[1] \o "_" \o ToString(index)
    ELSE IF nodeType \in ComponentTypes
    THEN parentPath \o ".c" \o ComponentName(nodeType) \o "_"
            \o ToString(CountSameType(siblings,
                   IF index < Len(siblings) THEN index ELSE Len(siblings), nodeType))
    ELSE parentPath \o ".i" \o ToString(index)

\* createChildPath as it would be had it numbered an unkeyed component by
\* its index among all its siblings
createChildPath_byIndex(parentPath, key, index, nodeType, siblings) ==
    IF key # NoKey
    THEN parentPath \o ".k" \o key[1]
    ELSE IF nodeType \in ComponentTypes
    THEN parentPath \o ".c" \o ComponentName(nodeType) \o "_" \o ToString(index)
    ELSE parentPath \o ".i" \o ToString(index)

\* index is 0-based as in the source; siblings is the 1-based TLA+ sequence
createChildPath(parentPath, key, index, nodeType, siblings) ==
    IF key # NoKey
    THEN parentPath \o ".k" \o key[1]
    ELSE IF nodeType \in ComponentTypes
    THEN parentPath \o ".c" \o ComponentName(nodeType) \o "_"
            \o ToString(CountSameType(siblings,
                   IF index < Len(siblings) THEN index ELSE Len(siblings), nodeType))
    ELSE parentPath \o ".i" \o ToString(index)

\* --------------------------------------------------------- JavaScript values
\* A hook slot holds any JavaScript value; the model tags each with t.
Undef == [t |-> "undef"]
NaN == [t |-> "nan"]
Num(n) == [t |-> "num", n |-> n]
Obj(id) == [t |-> "obj", id |-> id]          \* an object, by identity
Str(s) == [t |-> "str", s |-> s]

\* Object.is
ObjectIs(a, b) == a = b

\* JavaScript truthiness of a slot value
Truthy(v) ==
    CASE v.t = "undef" -> FALSE
      [] v.t = "nan" -> FALSE
      [] v.t = "num" -> v.n # 0
      [] v.t = "str" -> v.s # ""
      [] OTHER -> TRUE

\* String(value), used by the components to display a state value
StringOf(v) ==
    CASE v.t = "num" -> ToString(v.n)
      [] v.t = "undef" -> "undefined"
      [] v.t = "nan" -> "NaN"
      [] v.t = "str" -> v.s
      [] OTHER -> "[object Object]"

\* ---------------------------------------------------------------- the DOM
\* Widgets are numbered; widget 0 is the root container.  A widget records
\* its parent (NoParent when detached) and its ordered child list.
Container == 0
NoParent == 0 - 1
NoDom == 0 - 1                                \* instance.dom === null

Widget(tag, text) ==
    [tag |-> tag, text |-> text, props |-> NoProps, parent |-> NoParent, kids |-> <<>>]

InitDom == [w \in {Container} |-> Widget("#root", "")]

RemoveFromSeq(seq, x) == SelectSeq(seq, LAMBDA y : y # x)

\* document.createElement / document.createTextNode: the new widget's number
\* is c.nextId
createNode(c, tag, text) ==
    [c EXCEPT !.dom = @ @@ (c.nextId :> Widget(tag, text)),
              !.nextId = @ + 1]

\* Node.appendChild: a node that is attached somewhere is moved
appendChild(c, parent, node) ==
    LET old == c.dom[node].parent
        d1 == IF old = NoParent THEN c.dom
              ELSE [c.dom EXCEPT ![old].kids = RemoveFromSeq(@, node)]
        d2 == [d1 EXCEPT ![parent].kids = Append(@, node), ![node].parent = parent]
    IN [c EXCEPT !.dom = d2, !.muts = @ + 1]

\* Node.removeChild
removeChild(c, parent, node) ==
    [c EXCEPT !.dom = [@ EXCEPT ![parent].kids = RemoveFromSeq(@, node),
                                ![node].parent = NoParent],
              !.muts = @ + 1]

\* Property names that exist on an element object (`key in dom`); any other
\* name is set with setAttribute.  The application uses no style and no
\* event-handler props.
DomProperties == {"id", "title"}

WithProp(props, key, value) == [k \in (DOMAIN props) \cup {key} |->
                                  IF k = key THEN value ELSE props[k]]
WithoutProp(props, key) == [k \in (DOMAIN props) \ {key} |-> props[k]]

\* The keys of a props object in a fixed enumeration order
RECURSIVE KeySeq(_)
KeySeq(S) == IF S = {} THEN <<>>
             ELSE LET k == CHOOSE x \in S : TRUE IN <<k>> \o KeySeq(S \ {k})

\* setDomProps: className, element property or attribute
RECURSIVE SetProps(_, _, _, _)
SetProps(c, dom, props, keys) ==
    IF keys = <<>> THEN c
    ELSE LET key == Head(keys)
             c1 == [c EXCEPT !.dom[dom].props = WithProp(@, key, props[key]),
                             !.muts = @ + 1]
         IN SetProps(c1, dom, props, Tail(keys))

setDomProps(c, dom, props) == SetProps(c, dom, props, KeySeq(DOMAIN props))

\* updateDomProps, first loop: props absent from nextProps are removed
RECURSIVE RemoveOldProps(_, _, _, _, _)
RemoveOldProps(c, dom, prevProps, nextProps, keys) ==
    IF keys = <<>> THEN c
    ELSE LET key == Head(keys)
             c1 == IF key \in DOMAIN nextProps THEN c
                   ELSE IF key = "className" \/ key \in DomProperties
                   THEN [c EXCEPT !.dom[dom].props = WithProp(@, key, ""),
                                  !.muts = @ + 1]
                   ELSE [c EXCEPT !.dom[dom].props = WithoutProp(@, key),
                                  !.muts = @ + 1]
         IN RemoveOldProps(c1, dom, prevProps, nextProps, Tail(keys))

\* updateDomProps, second loop: props whose value changed are set
RECURSIVE SetNewProps(_, _, _, _, _)
SetNewProps(c, dom, prevProps, nextProps, keys) ==
    IF keys = <<>> THEN c
    ELSE LET key == Head(keys)
             c1 == IF key \in DOMAIN prevProps /\ prevProps[key] = nextProps[key]
                   THEN c
                   ELSE [c EXCEPT !.dom[dom].props = WithProp(@, key, nextProps[key]),
                                  !.muts = @ + 1]
         IN SetNewProps(c1, dom, prevProps, nextProps, Tail(keys))

updateDomProps(c, dom, prevProps, nextProps) ==
    SetNewProps(RemoveOldProps(c, dom, prevProps, nextProps, KeySeq(DOMAIN prevProps)),
                dom, prevProps, nextProps, KeySeq(DOMAIN nextProps))

\* --------------------------------------------------------------- instances
NullInst == [kind |-> "null"]
IsNullInst(instance) == instance.kind = "null"

Instance(kind, dom, node, children, path) ==
    [kind |-> kind, dom |-> dom, node |-> node, children |-> children,
     key |-> node.key, path |-> path]

RECURSIVE getDomNodes(_)
RECURSIVE DomNodesOfAll(_)
getDomNodes(instance) ==
    IF IsNullInst(instance) THEN <<>>
    ELSE IF instance.dom # NoDom THEN <<instance.dom>>
    ELSE DomNodesOfAll(instance.children)

\* the loop of getDomNodes over instance.children
DomNodesOfAll(children) ==
    IF children = <<>> THEN <<>>
    ELSE getDomNodes(Head(children)) \o DomNodesOfAll(Tail(children))

RECURSIVE RemoveNodes(_, _, _)
RemoveNodes(c, parentDom, nodes) ==
    IF nodes = <<>> THEN c
    ELSE LET node == Head(nodes)
             c1 == IF c.dom[node].parent = parentDom
                   THEN removeChild(c, parentDom, node) ELSE c
         IN RemoveNodes(c1, parentDom, Tail(nodes))

\* removeInstance as it would be had it removed only the first widget of the
\* instance
removeInstance_first(c, parentDom, instance) ==
    IF IsNullInst(instance) THEN c
    ELSE RemoveNodes(c, parentDom, SubSeq(getDomNodes(instance), 1, 1))

removeInstance(c, parentDom, instance) ==
    IF IsNullInst(instance) THEN c
    ELSE RemoveNodes(c, parentDom, getDomNodes(instance))

\* ---------------------------------------------------------------- history
\* Observations of the run, kept for the properties only.
\* ev: what happened; path, slot: the hook slot concerned; id: the effect run
\* concerned (a cleanup is named by the run that returned it); pass: the last
\* render pass started; of: the pass whose code (or whose flush) did it.
Event(ev, path, slot, id, pass, of) ==
    [ev |-> ev, path |-> path, slot |-> slot, id |-> id, pass |-> pass, of |-> of]

Logged(c, ev, path, slot, id) ==
    [c EXCEPT !.log = Append(@, Event(ev, path, slot, id, c.pass, c.of))]

\* -------------------------------------------------------------- scheduler
\* A queued microtask: the render of withEnqueue, the effect flush of a pass
\* (with its effectsToRun), or a callback of the application that calls the
\* setter of (path, cursor)
Task(kind, effects, pass, path, cursor) ==
    [kind |-> kind, effects |-> effects, pass |-> pass, path |-> path, cursor |-> cursor]

RenderTask == Task("render", <<>>, 0, "", 0)

\* withEnqueue(render): a call while a render is scheduled does nothing;
\* otherwise the render is queued as a microtask.  The flag is cleared when
\* that microtask starts (see RunRender).
enqueueRender(c) ==
    LET c1 == [c EXCEPT !.calls = @ + 1]
    IN IF c1.scheduled THEN c1
       ELSE [c1 EXCEPT !.scheduled = TRUE, !.tasks = Append(@, RenderTask)]

\* -------------------------------------------------------------- hook store
\* context.hooks.currentPath: top of the component stack
currentPath(c) == c.stack[Len(c.stack)]

\* context.hooks.currentCursor
currentCursor(c) ==
    IF currentPath(c) \in DOMAIN c.cursor THEN c.cursor[currentPath(c)] ELSE 0

\* context.hooks.currentHooks: the slot array of the current path, created
\* (and stored) when the path has none
WithCurrentHooks(c) ==
    IF currentPath(c) \in DOMAIN c.state THEN c
    ELSE [c EXCEPT !.state = @ @@ (currentPath(c) :> <<>>),
                   !.keys = Append(@, currentPath(c))]

\* array[i], undefined past the end
SlotAt(hooks, i) == IF i < Len(hooks) THEN hooks[i + 1] ELSE Undef

\* array[i] = v: assigning past the end leaves holes, which read undefined
RECURSIVE SetSlot(_, _, _)
SetSlot(hooks, i, v) ==
    IF i < Len(hooks) THEN [hooks EXCEPT ![i + 1] = v]
    ELSE IF i = Len(hooks) THEN Append(hooks, v)
    ELSE SetSlot(Append(hooks, Undef), i, v)

\* hooks.cursor.set(path, n)
SetCursor(c, path, n) ==
    [c EXCEPT !.cursor = [q \in (DOMAIN @) \cup {path} |-> IF q = path THEN n ELSE @[q]]]

\* the update c => c + 1 applied to a JavaScript value
Increment(v) ==
    CASE v.t = "num" -> Num(v.n + 1)
      [] v.t = "undef" -> NaN
      [] v.t = "nan" -> NaN
      [] OTHER -> Str(StringOf(v) \o "1")

\* An update is a value (fn = FALSE) or the function c => c + 1 (fn = TRUE)
ValueUpdate(v) == [fn |-> FALSE, v |-> v]
IncUpdate == [fn |-> TRUE, v |-> Undef]

\* The updates recorded for a setter call (history only)
Noted(c, path, cursor, nextValue, currentState) ==
    LET s == <<path, cursor>>
    IN [c EXCEPT !.touched = @ \cup {s},
                 !.pending = IF ~nextValue.fn THEN @
                             ELSE IF s \in DOMAIN @
                             THEN [@ EXCEPT ![s].k = @ + 1]
                             ELSE [q \in (DOMAIN @) \cup {s} |->
                                     IF q = s THEN [base |-> currentState, k |-> 1]
                                     ELSE @[q]]]

\* setState as it would be had it queued render itself, with
\* queueMicrotask(render), instead of calling enqueueRender
setState_unbatched(c, path, cursor, nextValue) ==
    LET currentState == IF path \in DOMAIN c.state THEN SlotAt(c.state[path], cursor)
                        ELSE Undef
        newValue == IF nextValue.fn THEN Increment(currentState) ELSE nextValue.v
        c0 == Noted(c, path, cursor, nextValue, currentState)
    IN IF ObjectIs(currentState, newValue) THEN c0
       ELSE LET c1 == IF path \in DOMAIN c0.state
                      THEN [c0 EXCEPT !.state[path] = SetSlot(@, cursor, newValue)]
                      ELSE c0
            IN [c1 EXCEPT !.tasks = Append(@, RenderTask)]

\* setState as it would be had it computed the update from the state value its
\* closure captured at render time instead of reading the slot
setState_stale(c, path, cursor, nextValue) ==
    LET captured == {r \in c.reads : r[1] = path /\ r[3] = cursor}
        slotState == IF path \in DOMAIN c.state THEN SlotAt(c.state[path], cursor)
                     ELSE Undef
        currentState == IF captured = {} THEN slotState
                        ELSE (CHOOSE r \in captured : TRUE)[4]
        newValue == IF nextValue.fn THEN Increment(currentState) ELSE nextValue.v
        c0 == Noted(c, path, cursor, nextValue, slotState)
    IN IF ObjectIs(currentState, newValue) THEN c0
       ELSE LET c1 == IF path \in DOMAIN c0.state
                      THEN [c0 EXCEPT !.state[path] = SetSlot(@, cursor, newValue)]
                      ELSE c0
            IN enqueueRender(c1)

\* setState as it would be without the Object.is test
setState_noBail(c, path, cursor, nextValue) ==
    LET currentState == IF path \in DOMAIN c.state THEN SlotAt(c.state[path], cursor)
                        ELSE Undef
        newValue == IF nextValue.fn THEN Increment(currentState) ELSE nextValue.v
        c0 == Noted(c, path, cursor, nextValue, currentState)
        c1 == IF path \in DOMAIN c0.state
              THEN [c0 EXCEPT !.state[path] = SetSlot(@, cursor, newValue)]
              ELSE c0
    IN enqueueRender(c1)

\* the setter closure of useState, closed over (path, cursor)
setState(c, path, cursor, nextValue) ==
    LET currentState == IF path \in DOMAIN c.state THEN SlotAt(c.state[path], cursor)
                        ELSE Undef
        newValue == IF nextValue.fn THEN Increment(currentState) ELSE nextValue.v
        c0 == Noted(c, path, cursor, nextValue, currentState)
    IN IF ObjectIs(currentState, newValue) THEN c0
       ELSE LET c1 == IF path \in DOMAIN c0.state
                      THEN [c0 EXCEPT !.state[path] = SetSlot(@, cursor, newValue)]
                      ELSE c0
            IN enqueueRender(c1)

\* An initial value is a plain value, or (lazy) the initializer function of
\* useRef, which builds a fresh object { current: initialValue }
PlainInit(v) == [lazy |-> FALSE, v |-> v]
RefInit == [lazy |-> TRUE, v |-> Undef]

\* useState as it would be without the test for an empty slot
useState_reinit(c, initialValue) ==
    LET c0 == WithCurrentHooks(c)
        path == currentPath(c0)
        cursor == currentCursor(c0)
        initialState == IF initialValue.lazy THEN Obj(c0.objs) ELSE initialValue.v
        c1 == [c0 EXCEPT !.state[path] = SetSlot(@, cursor, initialState),
                         !.objs = IF initialValue.lazy THEN @ + 1 ELSE @]
        state == SlotAt(c1.state[path], cursor)
        c2 == SetCursor(c1, path, cursor + 1)
    IN [c |-> [c2 EXCEPT !.reads = @ \cup {<<path, c.who, cursor, state>>},
                         !.setters = @ \cup {<<path, cursor>>}],
        state |-> state, path |-> path, cursor |-> cursor]

\* useState: returns the context, the state read and the setter's slot
useState(c, initialValue) ==
    LET c0 == WithCurrentHooks(c)
        path == currentPath(c0)
        cursor == currentCursor(c0)
        empty == SlotAt(c0.state[path], cursor) = Undef
        initialState == IF initialValue.lazy THEN Obj(c0.objs) ELSE initialValue.v
        c1 == IF empty
              THEN [c0 EXCEPT !.state[path] = SetSlot(@, cursor, initialState),
                              !.objs = IF initialValue.lazy THEN @ + 1 ELSE @]
              ELSE c0
        state == SlotAt(c1.state[path], cursor)
        c2 == SetCursor(c1, path, cursor + 1)
    IN [c |-> [c2 EXCEPT !.reads = @ \cup {<<path, c.who, cursor, state>>},
                         !.setters = @ \cup {<<path, cursor>>}],
        state |-> state, path |-> path, cursor |-> cursor]

\* useRef(initialValue) == useState(() => ({ current: initialValue }))[0]
useRef(c) == useState(c, RefInit)

\* A dependency argument: an array of values, or undefined (arr = FALSE)
Deps(items) == [arr |-> TRUE, items |-> items]
NoDeps == [arr |-> FALSE, items |-> <<>>]

\* shallowEquals on a stored deps (array or null) and a new deps array
shallowEquals(a, b) ==
    /\ a.arr /\ b.arr
    /\ Len(a.items) = Len(b.items)
    /\ \A i \in 1..Len(a.items) : ObjectIs(a.items[i], b.items[i])

NoCleanup == <<>>

EffectHook(deps, cleanup, effect) ==
    [t |-> "effect", deps |-> deps, cleanup |-> cleanup, effect |-> effect]

\* useEffect as it would be had it not compared the dependencies
useEffect_always(c, effect, deps) ==
    LET c0 == WithCurrentHooks(c)
        path == currentPath(c0)
        cursor == currentCursor(c0)
        prevHook == SlotAt(c0.state[path], cursor)
        isHook == prevHook.t = "effect"
        newHook == EffectHook(deps, IF isHook THEN prevHook.cleanup ELSE NoCleanup, effect)
        c1 == Logged([c0 EXCEPT !.state[path] = SetSlot(@, cursor, newHook),
                                !.queue = Append(@, [path |-> path, cursor |-> cursor])],
                     "enqueue", path, cursor, 0)
        c2 == SetCursor(c1, path, cursor + 1)
    IN [c2 EXCEPT !.effCalls = Append(@, [path |-> path, cursor |-> cursor, deps |-> deps,
                                          prev |-> prevHook,
                                          after |-> SlotAt(c2.state[path], cursor),
                                          enq |-> Len(c2.queue) - Len(c0.queue)])]

\* useEffect as it would be had it taken a missing dependency array for an
\* empty one
useEffect_depsDefault(c, effect, deps) ==
    LET c0 == WithCurrentHooks(c)
        path == currentPath(c0)
        cursor == currentCursor(c0)
        given == IF deps.arr THEN deps ELSE Deps(<<>>)
        prevHook == SlotAt(c0.state[path], cursor)
        isHook == prevHook.t = "effect"
        depsChanged == \/ ~Truthy(prevHook)
                       \/ ~isHook
                       \/ ~shallowEquals(prevHook.deps, given)
        newHook == EffectHook(given, IF isHook THEN prevHook.cleanup ELSE NoCleanup, effect)
        c1 == IF depsChanged
              THEN Logged([c0 EXCEPT !.state[path] = SetSlot(@, cursor, newHook),
                                     !.queue = Append(@, [path |-> path, cursor |-> cursor])],
                          "enqueue", path, cursor, 0)
              ELSE c0
        c2 == SetCursor(c1, path, cursor + 1)
    IN [c2 EXCEPT !.effCalls = Append(@, [path |-> path, cursor |-> cursor, deps |-> deps,
                                          prev |-> prevHook,
                                          after |-> SlotAt(c2.state[path], cursor),
                                          enq |-> Len(c2.queue) - Len(c0.queue)])]

\* useEffect
useEffect(c, effect, deps) ==
    LET c0 == WithCurrentHooks(c)
        path == currentPath(c0)
        cursor == currentCursor(c0)
        prevHook == SlotAt(c0.state[path], cursor)
        isHook == prevHook.t = "effect"
        depsChanged == \/ ~Truthy(prevHook)
                       \/ ~deps.arr
                       \/ ~isHook
                       \/ ~shallowEquals(prevHook.deps, deps)
        newHook == EffectHook(deps, IF isHook THEN prevHook.cleanup ELSE NoCleanup, effect)
        c1 == IF depsChanged
              THEN Logged([c0 EXCEPT !.state[path] = SetSlot(@, cursor, newHook),
                                     !.queue = Append(@, [path |-> path, cursor |-> cursor])],
                          "enqueue", path, cursor, 0)
              ELSE c0
        c2 == SetCursor(c1, path, cursor + 1)
    IN [c2 EXCEPT !.effCalls = Append(@, [path |-> path, cursor |-> cursor, deps |-> deps,
                                          prev |-> prevHook,
                                          after |-> SlotAt(c2.state[path], cursor),
                                          enq |-> Len(c2.queue) - Len(c0.queue)])]

\* the forEach over one path's slots in cleanupUnusedHooks
RECURSIVE CleanupSlots(_, _, _, _)
CleanupSlots(c, path, hookState, i) ==
    IF i > Len(hookState) THEN c
    ELSE LET hook == hookState[i]
             c1 == IF hook.t = "effect" /\ hook.cleanup # NoCleanup
                   THEN Logged(c, "cleanup-gc", path, i - 1, hook.cleanup[1])
                   ELSE c
         IN CleanupSlots(c1, path, hookState, i + 1)

\* Map.delete
DeleteKey(f, k) == [q \in (DOMAIN f) \ {k} |-> f[q]]

\* the forEach over pathsToDelete in cleanupUnusedHooks
RECURSIVE DeletePaths(_, _)
DeletePaths(c, paths) ==
    IF paths = <<>> THEN c
    ELSE LET path == Head(paths)
             c1 == CleanupSlots(c, path, c.state[path], 1)
             c2 == Logged([c1 EXCEPT !.state = DeleteKey(@, path),
                                     !.keys = RemoveFromSeq(@, path),
                                     !.cursor = DeleteKey(@, path),
                                     !.collected = @ \cup {path}],
                          "delete", path, 0, 0)
         IN DeletePaths(c2, Tail(paths))

\* cleanupUnusedHooks as it would be had it deleted the slots of unvisited
\* paths without calling their cleanups
RECURSIVE DeleteQuietly(_, _)
DeleteQuietly(c, paths) ==
    IF paths = <<>> THEN c
    ELSE LET path == Head(paths)
         IN DeleteQuietly(Logged([c EXCEPT !.state = DeleteKey(@, path),
                                          !.keys = RemoveFromSeq(@, path),
                                          !.cursor = DeleteKey(@, path),
                                          !.collected = @ \cup {path}],
                                 "delete", path, 0, 0),
                          Tail(paths))

cleanupUnusedHooks_quiet(c) ==
    DeleteQuietly(c, SelectSeq(c.keys, LAMBDA path : path \notin c.visited))

\* cleanupUnusedHooks as it would be had it called the cleanups of the
\* visited paths too
RECURSIVE CleanupPaths(_, _)
CleanupPaths(c, paths) ==
    IF paths = <<>> THEN c
    ELSE CleanupPaths(CleanupSlots(c, Head(paths), c.state[Head(paths)], 1), Tail(paths))

cleanupUnusedHooks_all(c) ==
    DeletePaths(CleanupPaths(c, SelectSeq(c.keys, LAMBDA path : path \in c.visited)),
                SelectSeq(c.keys, LAMBDA path : path \notin c.visited))

cleanupUnusedHooks(c) ==
    DeletePaths(c, SelectSeq(c.keys, LAMBDA path : path \notin c.visited))

\* --------------------------------------------------------- the application
H(tag, children) == createElement(tag, NoKey, NoProps, children)
C(type) == createElement(type, NoKey, NoProps, <<>>)
T(s) == createTextElement(s)

\* What the root component renders for each value of its state
Scenes == <<
    H("div", <<C("Counter"), C("Once")>>),
    H("div", <<C("Counter")>>),
    H("div", <<H("p", <<>>), C("Once")>>),
    H("div", <<C("Counter"), C("Every")>>),
    H("div", <<C("Once"), C("Counter")>>),
    NullNode >>

\* Scenes the root component leaves at once: it calls its own setter while
\* rendering them
Redirect == (5 :> 2)

\* <Item key={key} v={v} />, <Item v={v} />, <tag title={title} />
Keyed(type, key, v) == createElement(type, <<key>>, [v |-> v], <<>>)
Unkeyed(type, v) == createElement(type, NoKey, [v |-> v], <<>>)
Titled(tag, title) == createElement(tag, NoKey, [title |-> title], <<>>)

\* More trees of the root component, for its state values after those of
\* Scenes: keyed and unkeyed components that change index, two functions of
\* one display name, host children diffed by index, a fragment, nothing, and
\* a key given to a component of another type
Trees == <<
    H("ul", <<Keyed("Item", "a", 1), Keyed("Item", "b", 2)>>),
    H("ul", <<Keyed("Item", "b", 3), Keyed("Item", "a", 4)>>),
    H("ul", <<Unkeyed("Item", 1)>>),
    H("ul", <<Keyed("Item", "a", 5), H("p", <<>>), Unkeyed("Item", 2)>>),
    H("ul", <<Unkeyed("Item", 1), Unkeyed("ItemTwin", 2)>>),
    H("div", <<H("p", <<>>), Titled("span", "b"), Titled("span", "c")>>),
    H("div", <<H("p", <<>>), Titled("span", "c")>>),
    H("div", <<H("p", <<>>), H("em", <<>>), Titled("span", "c")>>),
    createElement(Fragment, NoKey, NoProps, <<T("x"), H("p", <<>>)>>),
    NullNode,
    H("ul", <<Keyed("Counter", "a", 0), Keyed("Item", "b", 2)>>) >>

\* the state values of the root component that select a tree of Trees
TreeScenes == {Len(Scenes) + t : t \in DOMAIN Trees}

SceneOf(v) ==
    IF v.t = "num" /\ v.n \in DOMAIN Scenes THEN Scenes[v.n]
    ELSE IF v.t = "num" /\ v.n \in TreeScenes THEN Trees[v.n - Len(Scenes)]
    ELSE NullNode

Effect(name) == [name |-> name, ret |-> TRUE]

\* function App({ initial }) { const [scene, setScene] = useState(initial);
\*                  if (scene redirects) setScene(target); return <scene/> }
App(c, props) ==
    LET Rendered(r) ==
            [c |-> IF r.state.t = "num" /\ r.state.n \in DOMAIN Redirect
                   THEN setState(r.c, r.path, r.cursor, ValueUpdate(Num(Redirect[r.state.n])))
                   ELSE r.c,
             node |-> SceneOf(r.state)]
    IN Rendered(useState(c, PlainInit(Num(props.initial))))

\* function Counter() { const [count, setCount] = useState(0);
\*   useEffect(() => cleanup, [count]); return <span>{count}</span> }
Counter(c) ==
    LET Rendered(r) ==
            [c |-> useEffect(r.c, Effect("Counter"), Deps(<<r.state>>)),
             node |-> H("span", <<T(StringOf(r.state))>>)]
    IN Rendered(useState(c, PlainInit(Num(0))))

\* function Once() { const ref = useRef(0);
\*   useEffect(() => cleanup, []); return "once" }
Once(c) ==
    LET Rendered(r) ==
            [c |-> useEffect(r.c, Effect("Once"), Deps(<<>>)), node |-> T("once")]
    IN Rendered(useRef(c))

\* function Every() { useEffect(() => cleanup);
\*   useEffect(() => cleanup, []); return "every" }
Every(c) ==
    [c |-> useEffect(useEffect(c, Effect("Every"), NoDeps), Effect("EveryOnce"), Deps(<<>>)),
     node |-> T("every")]

\* function Item({ v }) { const [s] = useState(v);
\*   useEffect(() => cleanup, []); return <li>{s}</li> }
Item(c, props) ==
    LET Rendered(r) ==
            [c |-> useEffect(r.c, Effect("Item"), Deps(<<>>)),
             node |-> H("li", <<T(StringOf(r.state))>>)]
    IN Rendered(useState(c, PlainInit(Num(props.v))))

\* function ItemTwin({ v }) { const [s] = useState(v); return <b>{s}</b> }
\* ItemTwin.displayName = "Item"
ItemTwin(c, props) ==
    LET Rendered(r) == [c |-> r.c, node |-> H("b", <<T(StringOf(r.state))>>)]
    IN Rendered(useState(c, PlainInit(Num(props.v))))

\* type(props)
Invoke(c, type, props) ==
    LET Called(c0) ==
            CASE type = "App" -> App(c0, props)
              [] type = "Counter" -> Counter(c0)
              [] type = "Once" -> Once(c0)
              [] type = "Item" -> Item(c0, props)
              [] type = "ItemTwin" -> ItemTwin(c0, props)
              [] OTHER -> Every(c0)
    IN Called(Logged([c EXCEPT !.who = type], "invoke", currentPath(c), 0, 0))

\* -------------------------------------------------------------- reconciler
RECURSIVE reconcile(_, _, _, _, _)
RECURSIVE mount(_, _, _, _)
RECURSIVE update(_, _, _, _, _)
RECURSIVE ReconcileFrom(_, _, _, _, _, _, _)

Max(a, b) == IF a > b THEN a ELSE b

\* array[i] || null
ChildAt(children, i) == IF i < Len(children) THEN children[i + 1] ELSE NullInst
NodeAt(children, i) == IF i < Len(children) THEN children[i + 1] ELSE NullNode

\* the loop of reconcileChildren, from index i on
ReconcileFrom(c, parentDom, parentPath, oldChildren, newChildren, i, newInstances) ==
    IF Len(newInstances) = i /\ i >= Max(Len(oldChildren), Len(newChildren))
    THEN [c |-> c, inst |-> newInstances]
    ELSE LET ChildPath(oldChild, newChild) ==
                 IF ~IsNullNode(newChild)
                 THEN createChildPath(parentPath, newChild.key, i, newChild.type, newChildren)
                 ELSE IF ~IsNullInst(oldChild) /\ oldChild.path # ""
                 THEN oldChild.path
                 ELSE parentPath \o ".i" \o ToString(i)
             Reconciled(oldChild, newChild) ==
                 reconcile(c, parentDom, oldChild, newChild, ChildPath(oldChild, newChild))
             Pushed(r) ==
                 ReconcileFrom(r.c, parentDom, parentPath, oldChildren, newChildren, i + 1,
                               Append(newInstances, r.inst))
         IN Pushed(Reconciled(ChildAt(oldChildren, i), NodeAt(newChildren, i)))

\* reconcileChildren as it would be had it aligned the old children with the
\* new ones at the end of the list instead of by index
reconcileChildren_tail(c, parentDom, parentPath, oldChildren, newChildren) ==
    ReconcileFrom(c, parentDom, parentPath,
                  IF Len(oldChildren) > Len(newChildren)
                  THEN SubSeq(oldChildren, Len(oldChildren) - Len(newChildren) + 1,
                              Len(oldChildren))
                  ELSE oldChildren,
                  newChildren, 0, <<>>)

reconcileChildren(c, parentDom, parentPath, oldChildren, newChildren) ==
    ReconcileFrom(c, parentDom, parentPath, oldChildren, newChildren, 0, <<>>)

\* the component branch shared by mount and update: visit protocol, the call
\* of the component function, and the reconciliation of its single child
RenderComponent(c, parentDom, node, oldChild, path) ==
    LET ChildPath(childNode) ==
            createChildPath(path, NoKey, 0, childNode.type,
                            IF IsNullNode(childNode) THEN <<>> ELSE <<childNode>>)
        Children(rc) ==
            [c |-> rc.c, inst |-> IF IsNullInst(rc.inst) THEN <<>> ELSE <<rc.inst>>]
        Reconciled(r) ==
            Children(reconcile([r.c EXCEPT !.stack = SubSeq(@, 1, Len(@) - 1)],
                               parentDom, oldChild, r.node, ChildPath(r.node)))
    IN Reconciled(Invoke([SetCursor(c, path, 0) EXCEPT !.stack = Append(@, path),
                                                      !.visited = @ \cup {path}],
                         node.type, node.props))

mount(c, parentDom, node, path) ==
    IF node.type = Fragment
    THEN LET Made(r) == [c |-> r.c, inst |-> Instance("fragment", NoDom, node, r.inst, path)]
         IN Made(reconcileChildren(c, parentDom, path, <<>>, node.children))
    ELSE IF node.type \in ComponentTypes
    THEN LET Made(r) == [c |-> r.c, inst |-> Instance("component", NoDom, node, r.inst, path)]
         IN Made(RenderComponent(c, parentDom, node, NullInst, path))
    ELSE IF node.type = TEXT_ELEMENT
    THEN [c |-> appendChild(createNode(c, "#text", node.nodeValue), parentDom, c.nextId),
          inst |-> Instance("text", c.nextId, node, <<>>, path)]
    ELSE LET Made(r) == [c |-> appendChild(r.c, parentDom, c.nextId),
                         inst |-> Instance("host", c.nextId, node, r.inst, path)]
         IN Made(reconcileChildren(setDomProps(createNode(c, node.type, ""), c.nextId,
                                               node.props),
                                   c.nextId, path, <<>>, node.children))

update(c, parentDom, instance, node, path) ==
    LET Updated(r) ==
            [c |-> r.c, inst |-> [instance EXCEPT !.node = node, !.path = path,
                                                  !.children = r.inst]]
    IN IF node.type = Fragment
       THEN Updated(reconcileChildren(c, parentDom, path, instance.children, node.children))
       ELSE IF node.type \in ComponentTypes
       THEN Updated(RenderComponent(c, parentDom, node, ChildAt(instance.children, 0), path))
       ELSE IF node.type = TEXT_ELEMENT /\ instance.dom # NoDom
       THEN [c |-> [c EXCEPT !.dom[instance.dom].text = node.nodeValue, !.muts = @ + 1],
             inst |-> [instance EXCEPT !.node = node, !.path = path]]
       ELSE IF instance.kind = "host" /\ instance.dom # NoDom
       THEN Updated(reconcileChildren(updateDomProps(c, instance.dom, instance.node.props,
                                                     node.props),
                                      instance.dom, path, instance.children, node.children))
       ELSE [c |-> c, inst |-> [instance EXCEPT !.node = node, !.path = path]]

\* reconcile as it would be had it compared the types only
reconcile_keyBlind(c, parentDom, instance, node, path) ==
    IF IsNullNode(node)
    THEN [c |-> removeInstance(c, parentDom, instance), inst |-> NullInst]
    ELSE IF IsNullInst(instance)
    THEN mount(c, parentDom, node, path)
    ELSE IF instance.node.type # node.type
    THEN mount(removeInstance(c, parentDom, instance), parentDom, node, path)
    ELSE update(c, parentDom, instance, node, path)

reconcile(c, parentDom, instance, node, path) ==
    IF IsNullNode(node)
    THEN [c |-> removeInstance(c, parentDom, instance), inst |-> NullInst]
    ELSE IF IsNullInst(instance)
    THEN mount(c, parentDom, node, path)
    ELSE IF instance.node.type # node.type \/ instance.node.key # node.key
    THEN mount(removeInstance(c, parentDom, instance), parentDom, node, path)
    ELSE update(c, parentDom, instance, node, path)

\* ------------------------------------------------------------------- state
VARIABLES
    state,          \* context.hooks.state: path -> hook slots
    keys,           \* insertion order of context.hooks.state
    cursor,         \* context.hooks.cursor
    visited,        \* context.hooks.visited
    componentStack, \* context.hooks.componentStack
    queue,          \* context.effects.queue
    rootInstance,   \* context.root.instance
    dom,            \* the widgets
    nextId,         \* number of the next widget created
    objs,           \* number of the next object created by an initializer
    scheduled,      \* the flag of withEnqueue(render)
    tasks,          \* the microtask queue
    tick,           \* "sync" while a handler of the application runs
    \* history, read by the properties only
    log,            \* the events so far
    pass,           \* number of render passes started
    runs,           \* number of effect runs
    muts,           \* number of widget mutations
    calls,          \* enqueueRender calls of the current synchronous block
    reads,          \* what useState returned in the last pass
    prevReads,      \* ... and in the pass before it
    effCalls,       \* the useEffect calls of the last pass
    setters,        \* the setter closures created so far
    touched,        \* slots whose setter was called since the last pass began
    prevTouched,    \* ... between the last two pass beginnings
    pending,        \* functional updates since the last pass began: slot -> base, k
    prevPending,    \* ... those the last pass rendered
    collected,      \* paths garbage-collected by the last pass
    ticks, tickCalls, defers, initialScene

vars == <<state, keys, cursor, visited, componentStack, queue, rootInstance, dom,
          nextId, objs, scheduled, tasks, tick, log, pass, runs, muts, calls, reads,
          prevReads, effCalls, setters, touched, prevTouched, pending, prevPending,
          collected, ticks, tickCalls, defers, initialScene>>

\* The context record the operators thread through a synchronous block
Ctx == [state |-> state, keys |-> keys, cursor |-> cursor, visited |-> visited,
        stack |-> componentStack, queue |-> queue, dom |-> dom, nextId |-> nextId,
        objs |-> objs, scheduled |-> scheduled, tasks |-> tasks, log |-> log,
        pass |-> pass, of |-> pass, runs |-> runs, muts |-> muts, calls |-> calls,
        reads |-> reads, effCalls |-> effCalls, setters |-> setters,
        touched |-> touched, pending |-> pending, collected |-> collected, who |-> ""]

Commit(c) ==
    /\ state' = c.state /\ keys' = c.keys /\ cursor' = c.cursor
    /\ visited' = c.visited /\ componentStack' = c.stack /\ queue' = c.queue
    /\ dom' = c.dom /\ nextId' = c.nextId /\ objs' = c.objs
    /\ scheduled' = c.scheduled /\ tasks' = c.tasks /\ log' = c.log
    /\ pass' = c.pass /\ runs' = c.runs /\ muts' = c.muts /\ calls' = c.calls
    /\ reads' = c.reads /\ effCalls' = c.effCalls /\ setters' = c.setters
    /\ touched' = c.touched /\ pending' = c.pending /\ collected' = c.collected

\* context.root.node: <App initial={initialScene} />
RootNode == createElement("App", NoKey, [initial |-> initialScene], <<>>)

\* The state after setup(<App/>, container): nothing is mounted yet and the
\* first render is scheduled.
Init ==
    /\ initialScene \in DOMAIN Scenes
    /\ state = [q \in {} |-> <<>>] /\ keys = <<>> /\ cursor = [q \in {} |-> 0]
    /\ visited = {} /\ componentStack = <<>> /\ queue = <<>>
    /\ rootInstance = NullInst /\ dom = InitDom /\ nextId = 1 /\ objs = 1
    /\ scheduled = TRUE /\ tasks = <<RenderTask>> /\ tick = "idle"
    /\ log = <<>> /\ pass = 0 /\ runs = 0 /\ muts = 0 /\ calls = 1
    /\ reads = {} /\ prevReads = {} /\ effCalls = <<>> /\ setters = {}
    /\ touched = {} /\ prevTouched = {} /\ collected = {}
    /\ pending = [q \in {} |-> 0] /\ prevPending = [q \in {} |-> 0]
    /\ ticks = 0 /\ tickCalls = 0 /\ defers = 0

\* the flush as it would be had it stopped at the first entry whose slot is gone
RECURSIVE RunEffects_abort(_, _)
RunEffects_abort(c, effectsToRun) ==
    IF effectsToRun = <<>> THEN c
    ELSE LET e == Head(effectsToRun)
             live == /\ e.path \in DOMAIN c.state
                     /\ Truthy(SlotAt(c.state[e.path], e.cursor))
                     /\ SlotAt(c.state[e.path], e.cursor).t = "effect"
             hook == SlotAt(c.state[e.path], e.cursor)
             c1 == IF hook.cleanup # NoCleanup
                   THEN Logged(c, "cleanup-flush", e.path, e.cursor, hook.cleanup[1])
                   ELSE c
             run == c1.runs + 1
             c2 == Logged([c1 EXCEPT !.runs = run], "run", e.path, e.cursor, run)
             c3 == [c2 EXCEPT !.state[e.path][e.cursor + 1].cleanup =
                                  IF hook.effect.ret THEN <<run>> ELSE NoCleanup]
         IN IF live THEN RunEffects_abort(c3, Tail(effectsToRun))
            ELSE Logged(c, "skip", e.path, e.cursor, 0)

\* the flush as it would be had it run the entries last to first
RECURSIVE RunEffects_reversed(_, _)
RunEffects_reversed(c, effectsToRun) ==
    IF effectsToRun = <<>> THEN c
    ELSE LET e == effectsToRun[Len(effectsToRun)]
             live == /\ e.path \in DOMAIN c.state
                     /\ Truthy(SlotAt(c.state[e.path], e.cursor))
                     /\ SlotAt(c.state[e.path], e.cursor).t = "effect"
             hook == SlotAt(c.state[e.path], e.cursor)
             c1 == IF hook.cleanup # NoCleanup
                   THEN Logged(c, "cleanup-flush", e.path, e.cursor, hook.cleanup[1])
                   ELSE c
             run == c1.runs + 1
             c2 == Logged([c1 EXCEPT !.runs = run], "run", e.path, e.cursor, run)
             c3 == [c2 EXCEPT !.state[e.path][e.cursor + 1].cleanup =
                                  IF hook.effect.ret THEN <<run>> ELSE NoCleanup]
         IN RunEffects_reversed(IF live THEN c3 ELSE Logged(c, "skip", e.path, e.cursor, 0),
                                SubSeq(effectsToRun, 1, Len(effectsToRun) - 1))

\* the callback of effectsToRun.forEach in render's microtask
RECURSIVE RunEffects(_, _)
RunEffects(c, effectsToRun) ==
    IF effectsToRun = <<>> THEN c
    ELSE LET e == Head(effectsToRun)
             live == /\ e.path \in DOMAIN c.state
                     /\ Truthy(SlotAt(c.state[e.path], e.cursor))
                     /\ SlotAt(c.state[e.path], e.cursor).t = "effect"
             hook == SlotAt(c.state[e.path], e.cursor)
             c1 == IF hook.cleanup # NoCleanup
                   THEN Logged(c, "cleanup-flush", e.path, e.cursor, hook.cleanup[1])
                   ELSE c
             run == c1.runs + 1
             c2 == Logged([c1 EXCEPT !.runs = run], "run", e.path, e.cursor, run)
             c3 == [c2 EXCEPT !.state[e.path][e.cursor + 1].cleanup =
                                  IF hook.effect.ret THEN <<run>> ELSE NoCleanup]
         IN RunEffects(IF live THEN c3 ELSE Logged(c, "skip", e.path, e.cursor, 0),
                       Tail(effectsToRun))

\* render as it would be had it run the queued effects at once, before the
\* hook garbage collection
render_effectsFirst(c, instance) ==
    LET Finish(r) ==
            [c |-> [cleanupUnusedHooks(RunEffects(r.c, r.c.queue)) EXCEPT !.queue = <<>>],
             inst |-> r.inst]
    IN Finish(reconcile([c EXCEPT !.cursor = [q \in {} |-> 0], !.visited = {},
                                  !.stack = <<>>],
                        Container, instance, RootNode, ""))

\* render as it would be had it not emptied the effect queue
render_keepQueue(c, instance) ==
    LET Scheduled(c2) ==
            IF Len(c2.queue) > 0
            THEN [c2 EXCEPT !.tasks = Append(@, Task("flush", c2.queue, c2.pass, "", 0))]
            ELSE c2
        Finish(r) == [c |-> Scheduled(cleanupUnusedHooks(r.c)), inst |-> r.inst]
    IN Finish(reconcile([c EXCEPT !.cursor = [q \in {} |-> 0], !.visited = {},
                                  !.stack = <<>>],
                        Container, instance, RootNode, ""))

\* render(): one render pass
render(c, instance) ==
    LET Scheduled(c2) ==
            IF Len(c2.queue) > 0
            THEN [c2 EXCEPT !.queue = <<>>,
                            !.tasks = Append(@, Task("flush", c2.queue, c2.pass, "", 0))]
            ELSE [c2 EXCEPT !.queue = <<>>]
        Finish(r) == [c |-> Scheduled(cleanupUnusedHooks(r.c)), inst |-> r.inst]
    IN Finish(reconcile([c EXCEPT !.cursor = [q \in {} |-> 0], !.visited = {},
                                  !.stack = <<>>],
                        Container, instance, RootNode, ""))

\* The microtask queued by enqueueRender runs: the flag is cleared and render
\* is called.
RunRender ==
    /\ tick = "idle" /\ tasks # <<>> /\ Head(tasks).kind = "render"
    /\ LET Done(r) == Commit(r.c) /\ rootInstance' = r.inst
       IN Done(render([Ctx EXCEPT !.tasks = Tail(@), !.scheduled = FALSE, !.calls = 0,
                                  !.pass = @ + 1, !.of = pass + 1, !.reads = {},
                                  !.effCalls = <<>>, !.touched = {}, !.collected = {},
                                  !.pending = [q \in {} |-> 0]],
                      rootInstance))
    /\ prevReads' = reads /\ prevTouched' = touched /\ prevPending' = pending
    /\ UNCHANGED <<tick, ticks, tickCalls, defers, initialScene>>

\* The microtask queued at the end of a render pass runs the pass's effects.
RunFlush ==
    /\ tick = "idle" /\ tasks # <<>> /\ Head(tasks).kind = "flush"
    /\ LET c0 == [Ctx EXCEPT !.tasks = Tail(@), !.calls = 0, !.of = Head(tasks).pass]
       IN Commit(RunEffects(c0, Head(tasks).effects))
    /\ UNCHANGED <<rootInstance, prevReads, prevTouched, prevPending, tick, ticks, tickCalls,
                   defers, initialScene>>

\* A handler of the application starts: a macrotask, so no microtask is
\* pending.
BeginTick ==
    /\ tick = "idle" /\ tasks = <<>> /\ ticks < MaxTicks
    /\ tick' = "sync" /\ ticks' = ticks + 1 /\ tickCalls' = 0 /\ calls' = 0
    /\ UNCHANGED <<state, keys, cursor, visited, componentStack, queue, rootInstance,
                   dom, nextId, objs, scheduled, tasks, log, pass, runs, muts, reads,
                   prevReads, effCalls, setters, touched, prevTouched, pending,
                   prevPending, collected, defers,
                   initialScene>>

\* the stored value a setter closure would read
Stored(path, slot) ==
    IF path \in DOMAIN state THEN SlotAt(state[path], slot) ELSE Undef

\* The handler calls a counter's setter: setCount(c => c + 1)
CallInc(path, slot) ==
    /\ tick = "sync" /\ tickCalls < MaxCalls
    /\ <<path, slot>> \in setters /\ path # ""
    /\ Stored(path, slot).t = "num" => Stored(path, slot).n < MaxCount
    /\ Commit(setState(Ctx, path, slot, IncUpdate))
    /\ tickCalls' = tickCalls + 1
    /\ UNCHANGED <<rootInstance, prevReads, prevTouched, prevPending, tick, ticks, defers,
                   initialScene>>

\* The handler calls the root component's setter, setScene(v), and returns.
CallSetScene(v) ==
    /\ tick = "sync" /\ tickCalls < MaxCalls
    /\ <<"", 0>> \in setters
    /\ Commit(setState(Ctx, "", 0, ValueUpdate(Num(v))))
    /\ tickCalls' = tickCalls + 1
    /\ tick' = "idle"
    /\ UNCHANGED <<rootInstance, prevReads, prevTouched, prevPending, ticks, defers,
                   initialScene>>

\* The handler first defers a call of a counter's setter:
\* queueMicrotask(() => setCount(c => c + 1))
Defer(path, slot) ==
    /\ tick = "sync" /\ defers < MaxDefer /\ tickCalls = 0
    /\ \A i \in 1..Len(tasks) : tasks[i].kind # "user"
    /\ <<path, slot>> \in setters /\ path # ""
    /\ tasks' = Append(tasks, Task("user", <<>>, 0, path, slot))
    /\ defers' = defers + 1
    /\ UNCHANGED <<state, keys, cursor, visited, componentStack, queue, rootInstance,
                   dom, nextId, objs, scheduled, tick, log, pass, runs, muts, calls,
                   reads, prevReads, effCalls, setters, touched, prevTouched, pending,
                   prevPending, collected, ticks,
                   tickCalls, initialScene>>

\* The handler returns.
EndTick ==
    /\ tick = "sync"
    /\ tick' = "idle"
    /\ UNCHANGED <<state, keys, cursor, visited, componentStack, queue, rootInstance,
                   dom, nextId, objs, scheduled, tasks, log, pass, runs, muts, calls,
                   reads, prevReads, effCalls, setters, touched, prevTouched, pending,
                   prevPending, collected, ticks,
                   tickCalls, defers, initialScene>>

\* A deferred callback of the application runs.
RunUser ==
    /\ tick = "idle" /\ tasks # <<>> /\ Head(tasks).kind = "user"
    /\ LET c0 == [Ctx EXCEPT !.tasks = Tail(@), !.calls = 0]
       IN Commit(setState(c0, Head(tasks).path, Head(tasks).cursor, IncUpdate))
    /\ UNCHANGED <<rootInstance, prevReads, prevTouched, prevPending, tick, ticks, tickCalls,
                   defers, initialScene>>

Next ==
    \/ RunRender
    \/ RunFlush
    \/ RunUser
    \/ BeginTick
    \/ \E s \in setters : CallInc(s[1], s[2])
    \/ \E v \in DOMAIN Scenes : CallSetScene(v)
    \/ \E s \in setters : Defer(s[1], s[2])
    \/ EndTick

Spec == Init /\ [][Next]_vars

\* A second application of the same runtime: the root component renders the
\* trees of Trees, its handlers switch the tree or call enqueueRender() with
\* no state change.
TreeInit ==
    /\ initialScene \in TreeScenes
    /\ state = [q \in {} |-> <<>>] /\ keys = <<>> /\ cursor = [q \in {} |-> 0]
    /\ visited = {} /\ componentStack = <<>> /\ queue = <<>>
    /\ rootInstance = NullInst /\ dom = InitDom /\ nextId = 1 /\ objs = 1
    /\ scheduled = TRUE /\ tasks = <<RenderTask>> /\ tick = "idle"
    /\ log = <<>> /\ pass = 0 /\ runs = 0 /\ muts = 0 /\ calls = 1
    /\ reads = {} /\ prevReads = {} /\ effCalls = <<>> /\ setters = {}
    /\ touched = {} /\ prevTouched = {} /\ collected = {}
    /\ pending = [q \in {} |-> 0] /\ prevPending = [q \in {} |-> 0]
    /\ ticks = 0 /\ tickCalls = 0 /\ defers = 0

\* The handler calls enqueueRender() and returns.
CallEnqueueRender ==
    /\ tick = "sync" /\ tickCalls < MaxCalls
    /\ Commit(enqueueRender(Ctx))
    /\ tickCalls' = tickCalls + 1
    /\ tick' = "idle"
    /\ UNCHANGED <<rootInstance, prevReads, prevTouched, prevPending, ticks, defers,
                   initialScene>>

TreeNext ==
    \/ RunRender
    \/ RunFlush
    \/ BeginTick
    \/ \E v \in TreeScenes : CallSetScene(v)
    \/ CallEnqueueRender
    \/ EndTick

TreeSpec == TreeInit /\ [][TreeNext]_vars

\* ------------------------------------------------------------- observations
NumRender(ts) == Len(SelectSeq(ts, LAMBDA t : t.kind = "render"))

\* the component instance of the given path in an instance tree
RECURSIVE FindInst(_, _)
RECURSIVE FindIn(_, _)
FindInst(inst, path) ==
    IF IsNullInst(inst) THEN NullInst
    ELSE IF inst.kind = "component" /\ inst.path = path THEN inst
    ELSE FindIn(inst.children, path)

FindIn(children, path) ==
    IF children = <<>> THEN NullInst
    ELSE LET f == FindInst(Head(children), path)
         IN IF IsNullInst(f) THEN FindIn(Tail(children), path) ELSE f

Mounted(path) == ~IsNullInst(FindInst(rootInstance, path))

\* the text shown inside the first widget of the component at path
DisplayOf(path) ==
    LET nodes == getDomNodes(FindInst(rootInstance, path))
    IN IF nodes = <<>> THEN ""
       ELSE IF dom[nodes[1]].kids = <<>> THEN dom[nodes[1]].text
       ELSE dom[dom[nodes[1]].kids[1]].text

\* ------------------------------------------------------------------ claims

\* C1: however many times enqueueRender is called in one synchronous block
\* (by setters or otherwise), exactly one render is queued for it, and no pass
\* starts inside the block: a pass starts only as the microtask at the head
\* of the queue, when the block has ended, and it consumes that one render.
C1_OnePassPerTick ==
    /\ [](calls >= 1 => NumRender(tasks) = 1)
    /\ [][pass' # pass => /\ pass' = pass + 1
                          /\ tick = "idle"
                          /\ NumRender(tasks) = 1
                          /\ Head(tasks).kind = "render"
                          /\ NumRender(tasks') = (IF calls' >= 1 THEN 1 ELSE 0)]_vars

\* three setter calls of one handler are pending behind a single queued render
C1_Witness ==
    /\ tick = "sync" /\ tickCalls = 3 /\ calls = 3
    /\ NumRender(tasks) = 1 /\ pass = 1

\* C2: a component invoked at the same path in two consecutive passes reads
\* from useState, at every slot whose setter was not called in between, the
\* value it read in the pass before (no initial value is applied again).
C2_SlotContinuity ==
    \A r1 \in prevReads : \A r2 \in reads :
        (r1[1] = r2[1] /\ r1[2] = r2[2] /\ r1[3] = r2[3]
            /\ <<r1[1], r1[3]>> \notin prevTouched)
        => r1[4] = r2[4]

\* a counter read the non-initial value 1 in two consecutive passes
C2_Witness ==
    \E r \in reads \cap prevReads :
        r[2] = "Counter" /\ r[4] = Num(1) /\ <<r[1], r[3]>> \notin prevTouched

\* C3: k calls of setCount(c => c + 1) before the render leave base + k in
\* the slot, and the pass that follows displays base + k.
C3_FunctionalUpdates ==
    /\ \A s \in DOMAIN pending :
          pending[s].base.t = "num"
          => Stored(s[1], s[2]) = Num(pending[s].base.n + pending[s].k)
    /\ \A s \in DOMAIN prevPending :
          (prevPending[s].base.t = "num" /\ Mounted(s[1]))
          => DisplayOf(s[1]) = ToString(prevPending[s].base.n + prevPending[s].k)

\* three synchronous calls took a counter from 0 to 3 in one pass
C3_Witness ==
    /\ defers = 0 /\ pass = 2
    /\ \E s \in DOMAIN prevPending :
          /\ prevPending[s] = [base |-> Num(0), k |-> 3]
          /\ DisplayOf(s[1]) = "3"
          /\ Stored(s[1], s[2]) = Num(3)

\* --- observations on the log
Idx == 1..Len(log)
IsEv(i, ev) == log[i].ev = ev
SameSlot(i, j) == log[i].path = log[j].path /\ log[i].slot = log[j].slot

\* number of events ev on slot (path, slot) done by (the flush of) pass n
NumOf(ev, path, slot, n) ==
    Cardinality({i \in Idx : IsEv(i, ev) /\ log[i].path = path /\ log[i].slot = slot
                             /\ log[i].of = n})

\* the flush of pass n has run (or the pass queued none)
FlushDone(n) == \A k \in 1..Len(tasks) : ~(tasks[k].kind = "flush" /\ tasks[k].pass = n)

\* the run of slot (path, slot) that precedes event i with no deletion of the
\* path in between: 0 when there is none
LastRunBefore(i, path, slot) ==
    LET js == {j \in 1..(i - 1) :
                 /\ IsEv(j, "run") /\ log[j].path = path /\ log[j].slot = slot
                 /\ \A d \in (j + 1)..(i - 1) : ~(IsEv(d, "delete") /\ log[d].path = path)}
    IN IF js = {} THEN 0 ELSE CHOOSE j \in js : \A k \in js : k <= j

\* dependency arrays with the same values
SameDeps(a, b) == a.arr /\ b.arr /\ a.items = b.items

\* C4: a useEffect with a dependency array is enqueued when its slot is
\* empty or its deps differ from the stored ones, and with equal deps leaves
\* the slot as it was and enqueues nothing; every enqueued entry is run at
\* most once, exactly once when its flush is over and it was not dropped, and
\* a run is preceded at once by the cleanup of the slot's previous run, if
\* there was one, and by none otherwise.
C4_EffectGating ==
    /\ \A k \in 1..Len(effCalls) :
          LET e == effCalls[k]
          IN e.deps.arr =>
               /\ e.prev = Undef => e.enq = 1
               /\ (e.prev.t = "effect" /\ SameDeps(e.prev.deps, e.deps))
                      => (e.enq = 0 /\ e.after = e.prev)
               /\ (e.prev.t = "effect" /\ ~SameDeps(e.prev.deps, e.deps)) => e.enq = 1
    /\ \A i \in Idx :
          /\ IsEv(i, "run") =>
                /\ NumOf("enqueue", log[i].path, log[i].slot, log[i].of) = 1
                /\ NumOf("run", log[i].path, log[i].slot, log[i].of) = 1
                /\ LET j == LastRunBefore(i, log[i].path, log[i].slot)
                   IN IF j = 0
                      THEN i > 1 => ~(IsEv(i - 1, "cleanup-flush") /\ SameSlot(i - 1, i))
                      ELSE /\ IsEv(i - 1, "cleanup-flush") /\ SameSlot(i - 1, i)
                           /\ log[i - 1].id = log[j].id
          /\ IsEv(i, "cleanup-flush") =>
                i < Len(log) /\ IsEv(i + 1, "run") /\ SameSlot(i, i + 1)
          /\ (IsEv(i, "enqueue") /\ FlushDone(log[i].pass) /\ log[i].pass <= pass) =>
                NumOf("run", log[i].path, log[i].slot, log[i].pass)
                  + NumOf("skip", log[i].path, log[i].slot, log[i].pass) = 1

\* a pass left an effect alone whose deps were unchanged, and an effect whose
\* deps changed was cleaned up and run again
C4_Witness ==
    /\ \E k \in 1..Len(effCalls) :
          /\ effCalls[k].prev.t = "effect" /\ effCalls[k].deps.items # <<>>
          /\ SameDeps(effCalls[k].prev.deps, effCalls[k].deps) /\ effCalls[k].enq = 0
    /\ \E i \in Idx : IsEv(i, "cleanup-flush") /\ IsEv(i + 1, "run")

\* C5: a render pass deletes the slots and the cursor of every path that has
\* slots and was not visited, after calling each of its effect slots'
\* cleanups; so only visited paths have slots, and every path with slots is
\* the path of a mounted component.
C5_GarbageCollection ==
    /\ [](/\ DOMAIN state \subseteq visited
          /\ DOMAIN cursor \subseteq visited
          /\ \A q \in DOMAIN state : Mounted(q))
    /\ [][pass' = pass + 1 =>
            \A q \in DOMAIN state : q \notin visited' =>
                /\ q \notin DOMAIN state' /\ q \notin DOMAIN cursor'
                /\ q \in collected'
                /\ \A i \in 1..Len(state[q]) :
                      (state[q][i].t = "effect" /\ state[q][i].cleanup # NoCleanup) =>
                          \E j \in (Len(log) + 1)..Len(log') :
                              log'[j] = Event("cleanup-gc", q, i - 1, state[q][i].cleanup[1],
                                              pass', pass')]_vars

\* the last pass collected a path and called a cleanup of it
C5_Witness ==
    \E i \in Idx : /\ IsEv(i, "cleanup-gc") /\ log[i].pass = pass
                    /\ log[i].path \in collected /\ log[i].path \notin DOMAIN state

\* C6: when a path is deleted, the cleanup returned by the last run of each
\* of its effects is called exactly once in all, by the garbage collection of
\* the deleting pass, and before any effect of that pass's flush runs.
C6_CleanupOnUnmount ==
    \A d \in Idx : IsEv(d, "delete") =>
        \A i \in 1..(d - 1) :
            (IsEv(i, "run") /\ log[i].path = log[d].path
                /\ LastRunBefore(d, log[i].path, log[i].slot) = i) =>
              /\ Cardinality({c \in Idx : log[c].ev \in {"cleanup-gc", "cleanup-flush"}
                                          /\ log[c].id = log[i].id}) = 1
              /\ \E c \in (i + 1)..(d - 1) :
                    /\ IsEv(c, "cleanup-gc") /\ log[c].id = log[i].id
                    /\ log[c].pass = log[d].pass /\ SameSlot(c, i)
              /\ \A r \in Idx : (IsEv(r, "run") /\ log[r].of = log[d].pass) => r > d

\* Once ran its effect, was removed, its cleanup was called by the collection,
\* and then an effect of the component mounted in its place ran
C6_Witness ==
    \E i \in Idx : \E c \in Idx : \E d \in Idx : \E r \in Idx :
        /\ i < c /\ c < d /\ d < r
        /\ IsEv(i, "run") /\ log[i].path = ".i0.cOnce_0"
        /\ IsEv(c, "cleanup-gc") /\ log[c].id = log[i].id
        /\ IsEv(d, "delete") /\ log[d].path = ".i0.cOnce_0"
        /\ IsEv(r, "run") /\ log[r].of = log[d].pass /\ log[r].path = ".i0.cEvery_0"

\* C7: an effect enqueued in pass N runs after pass N is over and before any
\* later pass starts: when it runs, N is still the last pass started.
C7_FlushBeforeNextPass ==
    \A i \in Idx : IsEv(i, "run") => log[i].pass = log[i].of

\* the event that enqueued the entry run (or skipped) by event i
EnqueueOf(i) ==
    CHOOSE j \in Idx : IsEv(j, "enqueue") /\ SameSlot(j, i) /\ log[j].pass = log[i].of

\* the call of the component function of event i's path in event i's pass
InvokeOf(i) ==
    CHOOSE j \in Idx : IsEv(j, "invoke") /\ log[j].path = log[i].path
                       /\ log[j].pass = log[i].of

\* C8: the effects of one flush run in the order their entries were
\* enqueued, which is the order of the component calls of the pass and, in
\* one component, of its useEffect calls.
C8_FlushOrder ==
    \A i \in Idx : \A j \in Idx :
        (i < j /\ IsEv(i, "run") /\ IsEv(j, "run") /\ log[i].of = log[j].of) =>
          /\ EnqueueOf(i) < EnqueueOf(j)
          /\ \/ InvokeOf(i) < InvokeOf(j)
             \/ (log[i].path = log[j].path /\ log[i].slot < log[j].slot)

\* one flush ran effects of two components and two effects of one component
C8_Witness ==
    /\ \E i \in Idx : \E j \in Idx :
          /\ i < j /\ IsEv(i, "run") /\ IsEv(j, "run") /\ log[i].of = log[j].of
          /\ log[i].path # log[j].path
    /\ \E i \in Idx : \E j \in Idx :
          /\ i < j /\ IsEv(i, "run") /\ IsEv(j, "run") /\ log[i].of = log[j].of
          /\ log[i].path = log[j].path

\* C9: a flush skips an entry whose path has no slots any more: it runs
\* neither effect nor cleanup for it and creates no slots for the path, and
\* it still runs every entry whose effect slot is there.
C9_StaleEntrySkipped ==
    [][(tick = "idle" /\ tasks # <<>> /\ Head(tasks).kind = "flush") =>
         LET es == Head(tasks).effects
             new == (Len(log) + 1)..Len(log')
         IN /\ DOMAIN state' = DOMAIN state
            /\ \A k \in 1..Len(es) :
                  IF es[k].path \in DOMAIN state
                  THEN SlotAt(state[es[k].path], es[k].cursor).t = "effect" =>
                         \E j \in new : /\ log'[j].ev = "run"
                                         /\ log'[j].path = es[k].path
                                         /\ log'[j].slot = es[k].cursor
                  ELSE /\ \A j \in new : log'[j].path = es[k].path => log'[j].ev = "skip"
                       /\ \E j \in new : log'[j].path = es[k].path]_vars

\* a flush skipped the entry of a component removed by a later pass and then
\* ran the next entry
C9_Witness ==
    \E i \in Idx : \E j \in Idx :
        /\ i < j /\ IsEv(i, "skip") /\ IsEv(j, "run") /\ log[i].of = log[j].of
        /\ log[i].path \in collected /\ log[i].path \notin DOMAIN state

\* the widgets of a host instance's children are its widget's child list,
\* in order, throughout the tree
RECURSIVE DomInSync(_)
DomInSync(inst) ==
    IF IsNullInst(inst) THEN TRUE
    ELSE /\ inst.kind = "host" => dom[inst.dom].kids = DomNodesOfAll(inst.children)
         /\ \A k \in 1..Len(inst.children) : DomInSync(inst.children[k])

\* C10: after every pass the child widgets of every host widget, and of the
\* container, are the widgets of its VNode children, in VNode order.
C10_DomOrder ==
    /\ dom[Container].kids = getDomNodes(rootInstance)
    /\ DomInSync(rootInstance)

\* --- observations on the trees
Range(seq) == {seq[k] : k \in 1..Len(seq)}

\* every widget of an instance subtree
RECURSIVE WidgetsOf(_)
WidgetsOf(inst) ==
    IF IsNullInst(inst) THEN {}
    ELSE (IF inst.dom # NoDom THEN {inst.dom} ELSE {})
         \cup UNION {WidgetsOf(inst.children[k]) : k \in 1..Len(inst.children)}

\* the widgets attached under widget w, w included
RECURSIVE Under(_)
Under(w) == {w} \cup UNION {Under(k) : k \in Range(dom[w].kids)}

\* every instance of a subtree with the parent widget it was reconciled under
RECURSIVE Placed(_, _)
Placed(inst, parentDom) ==
    IF IsNullInst(inst) THEN {}
    ELSE {<<inst, parentDom>>}
         \cup UNION {Placed(inst.children[k],
                            IF inst.dom # NoDom THEN inst.dom ELSE parentDom) :
                        k \in 1..Len(inst.children)}

\* C11: reconciling an instance with a null VNode returns null and leaves none
\* of the instance's top-level widgets a child of the parent widget;
\* reconciling no instance with a null VNode changes nothing; and after every
\* pass the attached widgets are exactly those of the live instance tree.
C11_UnmountDetaches ==
    /\ Under(Container) = {Container} \cup WidgetsOf(rootInstance)
    /\ \A w \in DOMAIN dom : \A k \in Range(dom[w].kids) : dom[k].parent = w
    /\ reconcile(Ctx, Container, NullInst, NullNode, "") = [c |-> Ctx, inst |-> NullInst]
    /\ \A pl \in Placed(rootInstance, Container) :
          LET r == reconcile(Ctx, pl[2], pl[1], NullNode, pl[1].path)
          IN /\ r.inst = NullInst
             /\ \A w \in Range(getDomNodes(pl[1])) :
                   /\ w \notin Range(r.c.dom[pl[2]].kids)
                   /\ r.c.dom[w].parent = NoParent

\* a pass unmounted a fragment: its two widgets are detached and nothing is
\* attached to the container
C11_Witness ==
    /\ pass = 2 /\ rootInstance.children = <<>>
    /\ dom[Container].kids = <<>>
    /\ Cardinality({w \in DOMAIN dom : w # Container /\ dom[w].parent = NoParent}) = 2

\* the children of instance inst at two positions are one logical occurrence
\* only when they share an explicit key
SharedKey(a, b) == a.key # NoKey /\ a.key = b.key

\* C12: in every instance of the tree, the children at two different positions
\* that do not share an explicit key have different paths.
C12_DistinctPaths ==
    \A pl \in Placed(rootInstance, Container) :
        LET kids == pl[1].children
        IN \A i \in 1..Len(kids) : \A j \in 1..Len(kids) :
              (i < j /\ ~IsNullInst(kids[i]) /\ ~IsNullInst(kids[j])
                 /\ ~SharedKey(kids[i], kids[j]))
                => kids[i].path # kids[j].path

\* C13: a pass that follows a pass with no setter call in between (the same
\* VNode tree is reconciled against the instance tree of the first pass)
\* mutates no widget: nothing is created, appended, removed or moved, no
\* property or text is set, and the instance tree keeps its widgets.
C13_SecondPassMutatesNothing ==
    [][(pass' = pass + 1 /\ pass >= 1 /\ touched = {}) =>
          /\ muts' = muts
          /\ nextId' = nextId
          /\ dom' = dom
          /\ rootInstance' = rootInstance]_vars

\* the instances of a tree
InstancesOf(inst) == {pl[1] : pl \in Placed(inst, Container)}

\* old child and new node are the same element: same type and same key
SameElement(oldChild, node) ==
    oldChild.node.type = node.type /\ oldChild.node.key = node.key

\* C14: when a pass updates a host instance in place, its children are paired
\* with the new child nodes by index: a new node at index i with an old child
\* of the same type and key at index i keeps that child's widget, any other
\* new node gets new widgets, an old child whose index has no new node (or a
\* different element) has its widgets removed, and no new child has the
\* widget of an old child of another index.
C14_PositionalDiff ==
    [][pass' = pass + 1 =>
         \A o \in InstancesOf(rootInstance) : \A n \in InstancesOf(rootInstance') :
            (o.kind = "host" /\ n.kind = "host" /\ n.dom = o.dom) =>
              /\ Len(n.children) = Max(Len(o.children), Len(n.node.children))
              /\ \A i \in 0..(Len(n.children) - 1) :
                    LET oldChild == ChildAt(o.children, i)
                        newNode == NodeAt(n.node.children, i)
                        newChild == ChildAt(n.children, i)
                    IN /\ IsNullNode(newNode) =>
                            /\ IsNullInst(newChild)
                            /\ WidgetsOf(oldChild) \cap Under(Container)' = {}
                       /\ (~IsNullNode(newNode) /\ ~IsNullInst(oldChild)
                              /\ SameElement(oldChild, newNode)) =>
                            /\ newChild.dom = oldChild.dom
                            /\ newChild.kind = oldChild.kind
                       /\ (~IsNullNode(newNode)
                              /\ (IsNullInst(oldChild) \/ ~SameElement(oldChild, newNode))) =>
                            /\ \A w \in WidgetsOf(newChild) : w >= nextId
                            /\ WidgetsOf(oldChild) \cap Under(Container)' = {}
                       /\ \A j \in 0..(Len(o.children) - 1) :
                            (j # i /\ ~IsNullInst(newChild))
                              => WidgetsOf(newChild) \cap WidgetsOf(ChildAt(o.children, j)) = {}]_vars

\* [A, B, C] was re-rendered as [A, C] with B and C of one type: the host has
\* children [A, C, null], C's instance has the widget B had, next to A's,
\* now with C's title, and the widget of the old C is detached
C14_Witness ==
    /\ pass = 2
    /\ \E n \in InstancesOf(rootInstance) :
          /\ n.kind = "host" /\ Len(n.children) = 3 /\ Len(n.node.children) = 2
          /\ IsNullInst(n.children[3])
          /\ n.children[2].dom = n.children[1].dom + 1
          /\ dom[n.children[2].dom].props = [title |-> "c"]
          /\ \E w \in DOMAIN dom :
                dom[w].parent = NoParent /\ dom[w].tag = "span" /\ w # n.children[2].dom

\* the path reconcile is given for the child at index i of a parent instance
PathGiven(parent, i) ==
    LET child == parent.children[i + 1].node
    IN IF parent.kind = "component"
       THEN createChildPath(parent.path, NoKey, 0, child.type, <<child>>)
       ELSE createChildPath(parent.path, child.key, i, child.type, parent.node.children)

\* what a pass made of the instance old, given the instance new now at its
\* place: a Replace (old widgets detached, new widgets all created by this
\* pass, mounted at the path given) when type or key differs, an Update (same
\* kind, widget and key; the widget kept its tag and parent; the children
\* treated likewise) when they do not
RECURSIVE Transition(_, _, _, _, _, _, _)
Transition(old, new, given, before, after, attached, fresh) ==
    IF IsNullInst(old) \/ IsNullInst(new)
    THEN TRUE
    ELSE IF ~SameElement(old, new.node)
    THEN /\ \A w \in WidgetsOf(new) : w >= fresh /\ w \in attached
         /\ WidgetsOf(old) \cap attached = {}
         /\ new.path = given
         /\ new.key = new.node.key
    ELSE /\ [new EXCEPT !.node = old.node, !.path = old.path, !.children = old.children] = old
         /\ new.path = given
         /\ new.dom # NoDom =>
               /\ new.dom < fresh
               /\ new.dom \in attached
               /\ after[new.dom].tag = before[new.dom].tag
               /\ after[new.dom].parent = before[new.dom].parent
         /\ \A i \in 0..(Len(new.children) - 1) :
               IsNullInst(new.children[i + 1])
                 \/ Transition(ChildAt(old.children, i), new.children[i + 1],
                               PathGiven(new, i), before, after, attached, fresh)

\* C15: in every pass, an existing instance given a non-null node is replaced
\* (its widgets detached, a new instance with new widgets mounted at the
\* given path) exactly when the type or the key differs, and is otherwise
\* updated: the same instance with the same widget, only node, path,
\* children and widget properties changed.
C15_ReplaceOrUpdate ==
    [][pass' = pass + 1 =>
          Transition(rootInstance, rootInstance', "", dom, dom', Under(Container)', nextId)]_vars

\* the second pass replaced a keyed component by one with another key and
\* updated the host above it in place
C15_Witness ==
    /\ pass = 2
    /\ initialScene = 7
    /\ \E n \in InstancesOf(rootInstance) :
          /\ n.kind = "host" /\ n.dom = 1
          /\ Len(n.children) = 2
          /\ n.children[1].node.key = <<"b">>
          /\ \A w \in WidgetsOf(n.children[1]) : w > 5
    /\ Cardinality({w \in DOMAIN dom : dom[w].parent = NoParent /\ dom[w].tag = "li"}) = 2

\* the keys of the non-null children are unique
UniqueKeys(children) ==
    \A i, j \in 1..Len(children) :
        (i < j /\ ~IsNullInst(children[i]) /\ ~IsNullInst(children[j]))
          => ~SharedKey(children[i].node, children[j].node)

\* the child at index i of the parent before the pass and the child at index
\* j of the same parent after it are one keyed component, moved
MovedKeyed(before, after, i, j) ==
    /\ before.path = after.path /\ before.kind = after.kind /\ before.kind # "component"
    /\ UniqueKeys(before.children) /\ UniqueKeys(after.children)
    /\ i \in 1..Len(before.children) /\ j \in 1..Len(after.children) /\ i # j
    /\ ~IsNullInst(before.children[i]) /\ ~IsNullInst(after.children[j])
    /\ before.children[i].kind = "component"
    /\ before.children[i].node.key # NoKey
    /\ after.children[j].node.type = before.children[i].node.type
    /\ after.children[j].node.key = before.children[i].node.key

\* C16: when a pass finds a keyed component at another index among its
\* siblings than the pass before (keys unique within the parent), the
\* component has the same path, the path is visited, its hook slots hold what
\* they held before the pass, useState returns the stored value and not the
\* new initial value, and the pass logs no cleanup by garbage collection and
\* no deletion for that path.
C16_KeyedMoveKeepsIdentity ==
    [][pass' = pass + 1 =>
         \A before \in InstancesOf(rootInstance) : \A after \in InstancesOf(rootInstance') :
            \A i \in 1..Len(before.children) : \A j \in 1..Len(after.children) :
               MovedKeyed(before, after, i, j) =>
                 LET path == before.children[i].path
                 IN /\ after.children[j].path = path
                    /\ path \in visited'
                    /\ path \in DOMAIN state' /\ state'[path] = state[path]
                    /\ \A rd \in reads' : (rd[1] = path /\ rd[3] = 0) => rd[4] = state[path][1]
                    /\ \E rd \in reads' : rd[1] = path /\ rd[3] = 0
                    /\ \A e \in (Len(log) + 1)..Len(log') :
                          log'[e].path = path => log'[e].ev \notin {"cleanup-gc", "delete"}]_vars

\* the items keyed a and b were rendered with values 1 and 2, then swapped
\* and rendered with values 4 and 3: each still holds its first value, and the
\* effect of each has run once and was never cleaned up
C16_Witness ==
    /\ pass = 2
    /\ initialScene = 7
    /\ \E n \in InstancesOf(rootInstance) :
          /\ n.kind = "host" /\ Len(n.children) = 2
          /\ n.children[1].path = ".i0.kb" /\ n.children[1].node.props.v = 3
          /\ n.children[2].path = ".i0.ka" /\ n.children[2].node.props.v = 4
    /\ state[".i0.ka"][1] = Num(1)
    /\ state[".i0.kb"][1] = Num(2)
    /\ {".i0.ka", ".i0.kb"} \subseteq visited
    /\ \A e \in Idx : log[e].ev \notin {"cleanup-gc", "cleanup-flush", "delete"}

\* the number of unkeyed siblings of the type of the child at index i (from
\* 1) that come before it
EarlierOfType(nodes, i) ==
    Cardinality({k \in 1..(i - 1) : nodes[k].type = nodes[i].type /\ nodes[k].key = NoKey})

\* the child at index i of a host or fragment is an unkeyed component
UnkeyedComponent(parent, i) ==
    /\ parent.kind # "component"
    /\ i \in 1..Len(parent.children) /\ ~IsNullInst(parent.children[i])
    /\ parent.children[i].kind = "component" /\ parent.children[i].node.key = NoKey

\* C17: after a pass, the path of an unkeyed component child is the parent
\* path, ".c", the component's name, "_" and the number of earlier unkeyed
\* siblings of its type, and the path of an unkeyed host, text or fragment
\* child is the parent path, ".i" and its index; and when a pass finds an
\* unkeyed component of a parent with the same number of earlier unkeyed
\* siblings of its type as the pass before, at whatever index, the component
\* has the same path and its hook slots hold what they held before the pass.
C17_UnkeyedComponentPath ==
    [][pass' = pass + 1 =>
         /\ \A parent \in InstancesOf(rootInstance') : \A i \in 1..Len(parent.children) :
               LET child == parent.children[i]
               IN (parent.kind # "component" /\ ~IsNullInst(child) /\ child.node.key = NoKey) =>
                     child.path =
                        IF child.kind = "component"
                        THEN parent.path \o ".c" \o ComponentName(child.node.type) \o "_"
                                \o ToString(EarlierOfType(parent.node.children, i))
                        ELSE parent.path \o ".i" \o ToString(i - 1)
         /\ \A before \in InstancesOf(rootInstance) : \A after \in InstancesOf(rootInstance') :
              \A i \in 1..Len(before.children) : \A j \in 1..Len(after.children) :
                 ( /\ before.path = after.path /\ before.kind = after.kind
                   /\ UnkeyedComponent(before, i) /\ UnkeyedComponent(after, j)
                   /\ after.children[j].node.type = before.children[i].node.type
                   /\ EarlierOfType(after.node.children, j) = EarlierOfType(before.node.children, i) )
                 => LET path == before.children[i].path
                    IN /\ after.children[j].path = path
                       /\ path \in DOMAIN state' /\ state'[path] = state[path]
                       /\ \A rd \in reads' : (rd[1] = path /\ rd[3] = 0) => rd[4] = state[path][1]]_vars

\* ul[Item(1)] was re-rendered as ul[Item a, p, Item(2)]: the unkeyed item is
\* now the third child, still at the path it had as the first child and
\* still holding 1, while the host before it has the path of its index
C17_Witness ==
    /\ pass = 2
    /\ initialScene = 9
    /\ \E n \in InstancesOf(rootInstance) :
          /\ n.kind = "host" /\ Len(n.children) = 3
          /\ n.children[1].path = ".i0.ka"
          /\ n.children[2].path = ".i0.i1"
          /\ n.children[3].path = ".i0.cItem_0" /\ n.children[3].node.props.v = 2
    /\ state[".i0.cItem_0"][1] = Num(1)

\* the (path, cursor) entries pushed on the effect queue by pass n, in order
EnqueuedIn(n) ==
    LET evs == SelectSeq(log, LAMBDA e : e.ev = "enqueue" /\ e.pass = n)
    IN [k \in 1..Len(evs) |-> [path |-> evs[k].path, cursor |-> evs[k].slot]]

\* the entries processed (run or skipped) so far by the flush of pass n
ProcessedOf(n) ==
    LET evs == SelectSeq(log, LAMBDA e : e.ev \in {"run", "skip"} /\ e.of = n)
    IN [k \in 1..Len(evs) |-> [path |-> evs[k].path, cursor |-> evs[k].slot]]

\* the flushes of pass n waiting in the microtask queue
FlushesOf(n) == {k \in 1..Len(tasks) : tasks[k].kind = "flush" /\ tasks[k].pass = n}

\* C18: the effect queue is empty after every pass, and the entries a pass
\* enqueued are held by exactly one flush: while that flush waits it is the
\* only one of its pass, holds exactly the pass's entries and none of them
\* has been processed; once it has run, exactly the pass's entries have been
\* processed, each once, by it and by no other flush.
C18_OneFlushPerEntry ==
    /\ queue = <<>>
    /\ \A n \in 1..pass :
          IF FlushesOf(n) # {}
          THEN /\ Cardinality(FlushesOf(n)) = 1
               /\ \A k \in FlushesOf(n) : tasks[k].effects = EnqueuedIn(n)
               /\ EnqueuedIn(n) # <<>>
               /\ ProcessedOf(n) = <<>>
          ELSE ProcessedOf(n) = EnqueuedIn(n)
    /\ \A i \in Idx : log[i].ev \in {"run", "skip", "cleanup-flush"} => log[i].of \in 1..pass

\* pass 2 ran before the flush of pass 1, a later pass enqueued effects too,
\* and all flushes have run
C18_Witness ==
    /\ pass = 3 /\ \A n \in 1..pass : FlushesOf(n) = {}
    /\ EnqueuedIn(1) # <<>> /\ EnqueuedIn(3) # <<>>
    /\ \E i \in Idx : \E j \in Idx :
          i < j /\ IsEv(i, "invoke") /\ log[i].pass = 2 /\ IsEv(j, "run") /\ log[j].of = 1

\* the setters whose slot is in the hook store
LiveSetters == {s \in setters : s[1] \in DOMAIN state /\ s[2] < Len(state[s[1]])}

\* arguments a setter is called with: the stored value itself, other
\* values, and the function c => c + 1
UpdatesFor(s) ==
    {IncUpdate} \cup {ValueUpdate(v) : v \in {Stored(s[1], s[2]), NaN, Num(0), Num(1), Num(2)}}

NoDepsSlots ==
    {s \in {<<p, i>> : p \in DOMAIN state, i \in 0..2} :
        /\ s[2] < Len(state[s[1]])
        /\ state[s[1]][s[2] + 1].t = "effect"
        /\ ~state[s[1]][s[2] + 1].deps.arr}

\* number of calls of the component function at path in pass n
InvokesIn(path, n) ==
    Cardinality({i \in Idx : IsEv(i, "invoke") /\ log[i].path = path /\ log[i].pass = n})

\* C20: a useEffect called without a dependency array enqueues its entry at
\* every call, so once in every pass that calls its component; when the flush
\* of that pass is over the effect has run once for it; and each run after
\* the first is preceded at once by the cleanup its previous run returned.
C20_NoDepsRunsEveryPass ==
    /\ \A k \in 1..Len(effCalls) :
          ~effCalls[k].deps.arr =>
             /\ effCalls[k].enq = 1
             /\ effCalls[k].after.t = "effect"
             /\ effCalls[k].prev.t = "effect" => effCalls[k].after.cleanup = effCalls[k].prev.cleanup
    /\ \A s \in NoDepsSlots : \A n \in 1..pass :
          /\ NumOf("enqueue", s[1], s[2], n) = InvokesIn(s[1], n)
          /\ (InvokesIn(s[1], n) = 1 /\ FlushDone(n)) => NumOf("run", s[1], s[2], n) = 1
    /\ \A s \in NoDepsSlots : \A i \in Idx :
          (IsEv(i, "run") /\ log[i].path = s[1] /\ log[i].slot = s[2]) =>
             LET j == LastRunBefore(i, s[1], s[2])
             IN j # 0 => /\ IsEv(i - 1, "cleanup-flush") /\ SameSlot(i - 1, i)
                         /\ log[i - 1].id = log[j].id
                         /\ log[i - 1].of = log[i].of

\* the component with an effect without dependencies was called in two
\* passes: that effect ran twice, the second time right after the cleanup of
\* its first run, while the component's effect with [] ran once
C20_Witness ==
    \E s \in NoDepsSlots :
       /\ InvokesIn(s[1], 1) = 1 /\ InvokesIn(s[1], 2) = 1
       /\ NumOf("run", s[1], s[2], 1) = 1 /\ NumOf("run", s[1], s[2], 2) = 1
       /\ NumOf("run", s[1], s[2] + 1, 1) = 1 /\ NumOf("run", s[1], s[2] + 1, 2) = 0
       /\ \E i \in Idx : \E j \in Idx :
             /\ j < i - 1 /\ IsEv(j, "run") /\ SameSlot(j, i) /\ log[j].of = 1
             /\ IsEv(i, "run") /\ log[i].path = s[1] /\ log[i].slot = s[2] /\ log[i].of = 2
             /\ IsEv(i - 1, "cleanup-flush") /\ log[i - 1].id = log[j].id

\* the value the useState of a component instance is called with
InitialOf(inst) ==
    IF inst.node.type = "Counter" THEN Num(0) ELSE Num(inst.node.props.v)

\* the pass replaced the component at index i (from 1) of a parent by a
\* component of another type
ReplacedByOtherType(before, after, i) ==
    /\ before.path = after.path /\ before.kind = after.kind /\ before.kind # "component"
    /\ i \in 1..Len(before.children) /\ i \in 1..Len(after.children)
    /\ ~IsNullInst(before.children[i]) /\ ~IsNullInst(after.children[i])
    /\ before.children[i].kind = "component" /\ after.children[i].kind = "component"
    /\ before.children[i].node.type # after.children[i].node.type

\* C21: when a pass replaces a component by a component of another type,
\* the new component's useState returns its initial value, each of its
\* useEffect calls finds an empty slot and enqueues its effect, and every
\* cleanup held by the discarded component's slots is invoked in that pass.
C21_ReplaceStartsFresh ==
    [][pass' = pass + 1 =>
         \A before \in InstancesOf(rootInstance) : \A after \in InstancesOf(rootInstance') :
            \A i \in 1..Len(before.children) :
               ReplacedByOtherType(before, after, i) =>
                 LET old == before.children[i]
                     new == after.children[i]
                 IN /\ \A rd \in reads' :
                          (rd[1] = new.path /\ rd[2] = new.node.type) => rd[4] = InitialOf(new)
                    /\ \A k \in 1..Len(effCalls') :
                          effCalls'[k].path = new.path =>
                             effCalls'[k].prev = Undef /\ effCalls'[k].enq = 1
                    /\ old.path \in DOMAIN state =>
                          \A s \in 1..Len(state[old.path]) :
                             (state[old.path][s].t = "effect"
                                /\ state[old.path][s].cleanup # NoCleanup) =>
                               \E e \in (Len(log) + 1)..Len(log') :
                                  /\ log'[e].ev \in {"cleanup-gc", "cleanup-flush"}
                                  /\ log'[e].id = state[old.path][s].cleanup[1]]_vars

\* the invocations of the cleanup returned by run id
CleanupsOf(id) ==
    {c \in Idx : log[c].ev \in {"cleanup-gc", "cleanup-flush"} /\ log[c].id = id}

\* C22: the cleanup returned by a run of an effect is invoked at most once,
\* and every invocation of a cleanup comes after the run of that slot that
\* returned it: by the flush directly before the next run of the slot, or by
\* the garbage collection of the pass that deletes the slot's path.
C22_CleanupAtMostOnce ==
    /\ \A id \in 1..runs : Cardinality(CleanupsOf(id)) <= 1
    /\ \A i \in Idx : \A j \in Idx :
          (IsEv(i, "run") /\ IsEv(j, "run") /\ log[i].id = log[j].id) => i = j
    /\ \A c \in Idx :
          log[c].ev \in {"cleanup-gc", "cleanup-flush"} =>
             /\ log[c].id \in 1..runs
             /\ \E i \in 1..(c - 1) :
                   IsEv(i, "run") /\ log[i].id = log[c].id /\ SameSlot(i, c)
             /\ IsEv(c, "cleanup-flush") =>
                   c < Len(log) /\ IsEv(c + 1, "run") /\ SameSlot(c, c + 1)
             /\ IsEv(c, "cleanup-gc") =>
                   \E d \in (c + 1)..Len(log) :
                      /\ IsEv(d, "delete") /\ log[d].path = log[c].path
                      /\ log[d].pass = log[c].pass
                      /\ \A r \in (c + 1)..d : ~IsEv(r, "run")

\* an effect ran twice with its first cleanup invoked in between by the
\* flush, the collection invoked the cleanup of another run, and a run's
\* cleanup has not been invoked at all
C22_Witness ==
    /\ \E f \in Idx : \E i \in Idx :
          IsEv(f, "cleanup-flush") /\ IsEv(i, "run") /\ i < f /\ log[i].id = log[f].id
    /\ \E g \in Idx : IsEv(g, "cleanup-gc")
    /\ \E id \in 1..runs : CleanupsOf(id) = {}

====
